---------------------------- MODULE Spec2Model ----------------------------
(***************************************************************************)
(* devflow-chronicle: the commit-stream analytics core.                    *)
(*                                                                         *)
(*   SpecSessions   GitParser.group_into_sessions (src/src/git_parser.py)  *)
(*   SpecCache      CacheManager (src/src/cache_manager.py): one instance  *)
(*                  and its cache directory, over time                     *)
(*   SpecCacheConc  the same instance with a second process calling set    *)
(*                  on the same cache directory                            *)
(*   SpecKey        CacheManager._generate_cache_key, two calls            *)
(*   SpecCacheRace  get and get_stats of one instance, step by step, while *)
(*                  another process deletes files of the directory         *)
(*   SpecAnalyzer   ClaudeAnalyzer._call_claude over its cache             *)
(*                  (src/src/claude_analyzer.py), and the cache line that  *)
(*                  handle_single_repo prints                              *)
(*   SpecScorer     QualityScorer.score_commits and get_summary_stats      *)
(*                  (src/src/quality_scorer.py)                            *)
(*   SpecScoreOne   the same for a single commit                           *)
(*   SpecMain       handle_single_repo (src/src/main.py)                   *)
(*   SpecPipeline   steps 2 and 4 of handle_single_repo: sessions,         *)
(*                  categories, scores and the temporal profile            *)
(*                                                                         *)
(* Timestamps of commits are counted in ticks of 30 minutes, the clock of  *)
(* the cache in whole hours.                                               *)
(* Scores are Python floats (IEEE 754 binary64), computed exactly.         *)
(***************************************************************************)
EXTENDS Integers, Sequences, FiniteSets, TLC

\* ---------------------------------------------------------------- bounds
MaxCommits == 3
MaxTime == 8
MaxGap == 3

MaxTicks == 1
MaxGets == 2
MaxForeign == 1

MaxParamKeys == 2

MaxCalls == 3

MaxScored == 2

MaxRetrieved == 2

MaxFormats == 2

\* timedelta(hours=gap_hours) in ticks of 30 minutes
TicksPerHour == 2

\* Config.CACHE_MAX_AGE_HOURS and Config.CACHE_MAX_AGE_DAYS, their defaults
CACHE_MAX_AGE_HOURS == 24
CACHE_MAX_AGE_DAYS == 7
\* timedelta(days=max_age) in hours, the unit of the cache's clock
HoursPerDay == 24

VARIABLES
    \* group_into_sessions
    commits,        \* the input list: a sequence of commit records
    gap_hours,      \* the gap_hours argument
    sessions,       \* the returned list of sessions
    spc,            \* "input" before the call, "done" after it
    \* CacheManager
    enabled,        \* self.enabled
    hits,           \* self.hits
    misses,         \* self.misses
    files,          \* the *.json files of self.cache_dir, by cache key
    now,            \* datetime.now(), in hours
    ticks,          \* how often the clock has advanced
    foreign,        \* how many files another program has written
    op,             \* the last call on the instance and what it returned
    writer,         \* a second process inside set for one key
    \* CacheManager._generate_cache_key
    kargs,          \* the arguments of two calls
    kkeys,          \* the keys returned so far
    \* ClaudeAnalyzer
    use_cache,      \* self.cache is a CacheManager (not None)
    calls,          \* how often _call_claude has been called
    api_calls,      \* how often self.client.messages.create has been called
    call,           \* the last call of _call_claude and how it ended
    \* QualityScorer
    scommits,       \* the commits given to score_commits
    scored, \* what score_commits returned
    summary,        \* what get_summary_stats returned
    qpc,            \* "input", "scored" after score_commits, "done"
    \* handle_single_repo
    stages,         \* what each stage of the run meets
    run,            \* how handle_single_repo ended
    mpc,            \* "input" before the call, "done" after it
    \* handle_single_repo, steps 2 and 4
    categorizations, \* the JSON that answers the categorization prompt
    temporal_data,  \* what analyze_temporal_patterns returned
    \* CacheManager, a call in progress
    pending,        \* where get or get_stats stands between its two accesses
    \* main
    main_cache,     \* the counters of the CacheManager made in main()
    stats_line      \* the cache line handle_single_repo has printed

sessVars == <<commits, gap_hours, sessions, spc>>
cacheVars == <<enabled, hits, misses, files, now, ticks, foreign, op, writer>>
keyVars == <<kargs, kkeys>>
anVars == <<use_cache, calls, api_calls, call>>
scoreVars == <<scommits, scored, summary, qpc>>
mainVars == <<stages, run, mpc>>
pipeVars == <<categorizations, temporal_data>>
statVars == <<main_cache, stats_line>>
restVars == <<keyVars, anVars, scoreVars, mainVars, pipeVars, pending, statVars>>
vars == <<sessVars, cacheVars, restVars>>

\* ------------------------------------------------------- git_parser.py
\* A commit dict, cut to the two fields group_into_sessions reads or that
\* tell two commits apart: hash (here the position in the input list) and
\* timestamp.
Commit(h, t) == [hash |-> h, timestamp |-> t]

CommitLists ==
    UNION { { [i \in 1..n |-> Commit(i, ts[i])] : ts \in [1..n -> 0..MaxTime] }
            : n \in 0..MaxCommits }

GapHours == (0 - 1)..MaxGap

\* sorted(commits, key=lambda x: x['timestamp']): Python's sort is stable, so
\* a commit goes behind every commit already placed whose timestamp is not
\* greater.
RECURSIVE InsertByTimestamp(_, _)
InsertByTimestamp(s, c) ==
    IF s = <<>> THEN <<c>>
    ELSE IF s[Len(s)].timestamp <= c.timestamp THEN Append(s, c)
    ELSE Append(InsertByTimestamp(SubSeq(s, 1, Len(s) - 1), c), s[Len(s)])

RECURSIVE SortedByTimestamp(_)
SortedByTimestamp(cs) ==
    IF cs = <<>> THEN <<>>
    ELSE InsertByTimestamp(SortedByTimestamp(SubSeq(cs, 1, Len(cs) - 1)), cs[Len(cs)])

\* time_gap > timedelta(hours=gap_hours)
ExceedsGapAtLeast(time_gap, gap) == time_gap >= gap * TicksPerHour
ExceedsGap(time_gap, gap) == time_gap > gap * TicksPerHour

\* sessions.append(current_session) after the loop
AddFinalSessionDropped(done, current_session) == done
AddFinalSession(done, current_session) == Append(done, current_session)

\* the for loop over sorted_commits[1:], then the final append
RECURSIVE WalkSorted(_, _, _, _, _)
WalkSorted(sorted_commits, i, done, current_session, gap) ==
    IF i > Len(sorted_commits) THEN AddFinalSession(done, current_session)
    ELSE LET time_gap == sorted_commits[i].timestamp
                           - current_session[Len(current_session)].timestamp
         IN  IF ExceedsGap(time_gap, gap)
             THEN WalkSorted(sorted_commits, i + 1, Append(done, current_session),
                             <<sorted_commits[i]>>, gap)
             ELSE WalkSorted(sorted_commits, i + 1, done,
                             Append(current_session, sorted_commits[i]), gap)

\* sessions[::-1]
NotReversed(s) == s
Reversed(s) == [i \in 1..Len(s) |-> s[Len(s) + 1 - i]]

group_into_sessions(cs, gap) ==
    IF cs = <<>> THEN <<>>
    ELSE LET sorted_commits == SortedByTimestamp(cs)
         IN  Reversed(WalkSorted(sorted_commits, 2, <<>>, <<sorted_commits[1]>>, gap))

\* a defaultdict(int) after the counting loop: the keys with their counts, in
\* the order in which the keys were first met (a dict keeps insertion order)
counted(keys) ==
    LET firsts == { i \in 1..Len(keys) : \A j \in 1..(i - 1) : keys[j] # keys[i] }
        nth(n) == CHOOSE i \in firsts : Cardinality({ j \in firsts : j < i }) = n - 1
    IN  [n \in 1..Cardinality(firsts) |->
            <<keys[nth(n)], Cardinality({ j \in 1..Len(keys) : keys[j] = keys[nth(n)] })>>]

\* max(d.items(), key=lambda x: x[1])[0]: max returns the first of the items
\* of the greatest count
max_by_count(items) ==
    items[CHOOSE n \in 1..Len(items) :
              /\ \A m \in 1..Len(items) : items[m][2] <= items[n][2]
              /\ \A m \in 1..(n - 1) : items[m][2] < items[n][2]][1]

\* analyze_temporal_patterns, without by_month and productivity_rate. The
\* timestamp of tick 0 is a Monday, 22:00.
analyze_temporal_patterns(cs) ==
    LET since_monday(c) == 22 * TicksPerHour + c.timestamp
        hour(c) == (since_monday(c) \div TicksPerHour) % 24
        date(c) == since_monday(c) \div (24 * TicksPerHour)
        strftime_A(c) ==
            <<"Monday", "Tuesday", "Wednesday", "Thursday", "Friday", "Saturday",
              "Sunday">>[(date(c) % 7) + 1]
        hours == counted([i \in 1..Len(cs) |-> hour(cs[i])])
        days == counted([i \in 1..Len(cs) |-> strftime_A(cs[i])])
        between(lo, hi) ==
            Cardinality({ i \in 1..Len(cs) : lo <= hour(cs[i]) /\ hour(cs[i]) < hi })
    IN  IF cs = <<>> THEN [empty |-> TRUE]
        ELSE [empty |-> FALSE,
              by_hour |-> hours,
              by_day |-> days,
              peak_hour |-> max_by_count(hours),
              peak_day |-> max_by_count(days),
              morning_commits |-> between(6, 12),
              afternoon_commits |-> between(12, 18),
              evening_commits |-> between(18, 24),
              night_commits |-> between(0, 6),
              active_days |-> Cardinality({ date(cs[i]) : i \in 1..Len(cs) }),
              total_commits |-> Len(cs)]

\* ---------------------------------------------------- cache_manager.py
\* Optional[int]: None, or an int
NoneInt == [some |-> FALSE, val |-> 0]
SomeInt(n) == [some |-> TRUE, val |-> n]

\* Python's `x or default` on an Optional[int]: None and 0 are both falsy
OrDefault(x, default) == IF x.some /\ x.val # 0 THEN x.val ELSE default

\* what a call returns
RetNone == [kind |-> "None"]
RetValue(v) == [kind |-> "value", val |-> v]

Prompts == {"p", "q"}
Models == {"m"}
Responses == {"r1", "r2"}

\* params: Optional[Dict]. A dict is the sequence of its items in insertion
\* order, no key twice. The keys are the strings "a", "aa", "aaa", ..., named
\* by their length, which is also how Python orders them; the values are
\* ints, named by the text json.dumps writes for them.
NoParams == [some |-> FALSE, items |-> <<>>]
Dict(items) == [some |-> TRUE, items |-> items]
Item(k, v) == [key |-> k, val |-> v]

RECURSIVE KeyText(_)
KeyText(k) == IF k <= 1 THEN "a" ELSE KeyText(k - 1) \o "a"

\* `if params:` is false for None and for the empty dict
Truthy(params) == params.some /\ params.items # <<>>

\* sort_keys=True: the items in the order of their keys
RECURSIVE InsertByKey(_, _)
InsertByKey(s, it) ==
    IF s = <<>> THEN <<it>>
    ELSE IF s[Len(s)].key <= it.key THEN Append(s, it)
    ELSE Append(InsertByKey(SubSeq(s, 1, Len(s) - 1), it), s[Len(s)])

RECURSIVE SortedByKey(_)
SortedByKey(items) ==
    IF items = <<>> THEN <<>>
    ELSE InsertByKey(SortedByKey(SubSeq(items, 1, Len(items) - 1)), items[Len(items)])

\* the text of a dict: {"a": 1, "aa": 2}
RECURSIVE ItemsText(_)
ItemsText(items) ==
    IF items = <<>> THEN ""
    ELSE LET first == "\"" \o KeyText(items[1].key) \o "\": " \o items[1].val
         IN  IF Len(items) = 1 THEN first ELSE first \o ", " \o ItemsText(Tail(items))

\* json.dumps(params, sort_keys=True)
json_dumps_insertion_order(d) == "{" \o ItemsText(d.items) \o "}"
json_dumps_sort_keys(d) == "{" \o ItemsText(SortedByKey(d.items)) \o "}"

\* _generate_cache_key: the string that is hashed. sha256 is taken to be
\* injective, so the key is identified with that string.
generate_cache_key(prompt, model, params) ==
    IF Truthy(params) THEN model \o ":" \o prompt \o ":" \o json_dumps_sort_keys(params)
    ELSE model \o ":" \o prompt

Keys == { generate_cache_key(p, m, NoParams) : p \in Prompts, m \in Models }

\* A cache file, as get reads it: what json.load makes of its content
\*   json       "absent" (no file), "invalid" (not JSON: empty, truncated,
\*              garbage), "nondict" (JSON, but a list, string, number or
\*              null), "dict"
\*   tsKind     of cache_data['timestamp']: "missing", "badstr" (a string
\*              fromisoformat rejects), "nonstr" (not a string), "iso"
\*   ts         the time an "iso" timestamp names
\*   response   cache_data['response'], or Missing
\*   mtime      st_mtime of the file
Missing == "<missing>"
Absent == [json |-> "absent", tsKind |-> "missing", ts |-> 0, response |-> Missing, mtime |-> 0]
Damaged(json, t) == [json |-> json, tsKind |-> "missing", ts |-> 0, response |-> Missing, mtime |-> t]
WrittenEntry(t, response) ==
    [json |-> "dict", tsKind |-> "iso", ts |-> t, response |-> response, mtime |-> t]

\* json.dump of a response and json.load of what it wrote. The responses
\* are Python strings (message.content[0].text): json.dump writes a JSON
\* string literal, json.load reads a JSON string back as a str.
json_dump(response) == [json |-> "string", chars |-> response]
json_load(text) == text.chars
JsonRoundTrip(response) == json_load(json_dump(response))

\* the outcome of one get: what it returns, what it adds to the counters,
\* whether it unlinks the file, and the exception that leaves it (if any)
Outcome(ret, h, m, unlink, raised) ==
    [ret |-> ret, hits |-> h, misses |-> m, unlink |-> unlink, raised |-> raised]

\* except (json.JSONDecodeError, KeyError, ValueError): unlink, miss, None.
\* h is what the try block had added to self.hits before it failed.
Handled(h) == Outcome(RetNone, h, 1, TRUE, "")
\* an exception the except clause does not name leaves get
Escapes(exc) == Outcome(RetNone, 0, 0, FALSE, exc)

\* get, from `if not cache_file.exists()` on, for file e at the current time
get_outcome(e, max_age_hours) ==
    IF e.json = "absent" THEN Outcome(RetNone, 0, 1, FALSE, "")
    ELSE IF e.json = "invalid" THEN Handled(0)              \* JSONDecodeError
    ELSE IF e.json = "nondict" THEN Escapes("TypeError")    \* cache_data['timestamp']
    ELSE IF e.tsKind = "missing" THEN Handled(0)            \* KeyError
    ELSE IF e.tsKind = "nonstr" THEN Escapes("TypeError")   \* fromisoformat(5)
    ELSE IF e.tsKind = "badstr" THEN Handled(0)             \* ValueError
    ELSE LET max_age == OrDefault(max_age_hours, CACHE_MAX_AGE_HOURS)
             age == now - e.ts
         IN  IF age > max_age THEN Outcome(RetNone, 0, 1, FALSE, "")
             ELSE IF e.response = Missing THEN Handled(1)   \* KeyError after hits += 1
             ELSE Outcome(RetValue(e.response), 1, 0, FALSE, "")

\* `if not self.enabled: return` at the top of set, and of get
set_returns_at_once_never == FALSE
set_returns_at_once == ~enabled
get_returns_at_once == ~enabled

\* hit_rate of get_stats, as the fraction num/den
Fraction(num, den) == [num |-> num, den |-> den]
hit_rate_unscaled(h, m) == IF h + m > 0 THEN Fraction(h, h + m) ELSE Fraction(0, 1)
hit_rate(h, m) == IF h + m > 0 THEN Fraction(h * 100, h + m) ELSE Fraction(0, 1)

\* the last call: its name, its key (get, set), its max_age argument (get,
\* clear), what it returned and the exception that left it ("" for none)
Call(name, key, max_age, ret, raised) ==
    [name |-> name, key |-> key, max_age |-> max_age, ret |-> ret, raised |-> raised]
NoCall == Call("none", "", NoneInt, RetNone, "")

MaxAgeArgs == {NoneInt} \cup { SomeInt(n) : n \in 0..1 }

\* The second process: idle, or between the open(cache_file, 'w') of its set
\* and the end of the with block. linked: the file it holds open is still
\* the one the directory names (nobody has unlinked it since).
WriterIdle == [pc |-> "idle", key |-> "", response |-> "", ts |-> 0, linked |-> FALSE]

\* cache_file.unlink() on the keys ks, seen from the second process
Unlinked(w, ks) == IF w.pc = "open" /\ w.key \in ks THEN [w EXCEPT !.linked = FALSE] ELSE w

\* ------------------------------------------------------- Python floats
\* A natural number is the sequence of its digits to the base 2^DigitBits,
\* lowest first, the highest not 0; the empty sequence is 0.
DigitBits == 15

\* 2^k for k <= 16
Pow2(k) ==
    <<1, 2, 4, 8, 16, 32, 64, 128, 256, 512, 1024, 2048, 4096, 8192, 16384,
      32768, 65536>>[k + 1]

DigitBase == Pow2(DigitBits)

RECURSIVE NatDigits(_)
NatDigits(n) == IF n = 0 THEN <<>> ELSE <<n % DigitBase>> \o NatDigits(n \div DigitBase)

RECURSIVE DigitsNat(_)
DigitsNat(a) == IF a = <<>> THEN 0 ELSE a[1] + DigitBase * DigitsNat(Tail(a))

RECURSIVE Trimmed(_)
Trimmed(a) == IF a = <<>> \/ a[Len(a)] # 0 THEN a ELSE Trimmed(SubSeq(a, 1, Len(a) - 1))

RECURSIVE NAdd(_, _, _)
NAdd(a, b, carry) ==
    IF a = <<>> /\ b = <<>> THEN NatDigits(carry)
    ELSE LET x == (IF a = <<>> THEN 0 ELSE a[1]) + (IF b = <<>> THEN 0 ELSE b[1]) + carry
         IN  <<x % DigitBase>> \o NAdd(IF a = <<>> THEN <<>> ELSE Tail(a),
                                       IF b = <<>> THEN <<>> ELSE Tail(b), x \div DigitBase)

\* a - b - borrow for a >= b + borrow, with zeros left at the high end
RECURSIVE NSub(_, _, _)
NSub(a, b, borrow) ==
    IF a = <<>> THEN <<>>
    ELSE LET x == a[1] - (IF b = <<>> THEN 0 ELSE b[1]) - borrow
         IN  <<x % DigitBase>> \o NSub(Tail(a), IF b = <<>> THEN <<>> ELSE Tail(b),
                                       IF x < 0 THEN 1 ELSE 0)

RECURSIVE NLess(_, _)
NLess(a, b) ==
    IF Len(a) # Len(b) THEN Len(a) < Len(b)
    ELSE IF a = <<>> THEN FALSE
    ELSE IF a[Len(a)] # b[Len(b)] THEN a[Len(a)] < b[Len(b)]
    ELSE NLess(Trimmed(SubSeq(a, 1, Len(a) - 1)), Trimmed(SubSeq(b, 1, Len(b) - 1)))

\* a * k + carry for a digit k
RECURSIVE NMulDigit(_, _, _)
NMulDigit(a, k, carry) ==
    IF a = <<>> THEN NatDigits(carry)
    ELSE LET x == a[1] * k + carry
         IN  <<x % DigitBase>> \o NMulDigit(Tail(a), k, x \div DigitBase)

\* a * 2^k: whole digits of zeros below, and each digit split over two places
ShiftLeft(a, k) ==
    LET s == k % DigitBits
        place(i) == (IF i <= Len(a) THEN (a[i] % Pow2(DigitBits - s)) * Pow2(s) ELSE 0)
                    + (IF i > 1 THEN a[i - 1] \div Pow2(DigitBits - s) ELSE 0)
    IN  IF a = <<>> THEN <<>>
        ELSE [i \in 1..(k \div DigitBits) |-> 0] \o Trimmed([i \in 1..(Len(a) + 1) |-> place(i)])

RECURSIVE NMul(_, _)
NMul(a, b) ==
    IF a = <<>> \/ b = <<>> THEN <<>>
    ELSE NAdd(NMulDigit(a, b[1], 0), ShiftLeft(NMul(a, Tail(b)), DigitBits), 0)

\* a divided by d < 2^DigitBits: quotient and remainder, by long division
\* from the highest digit down
NDivMod(a, d) ==
    LET RECURSIVE Long(_, _)
        \* the quotient digits from place i down, highest first, then the
        \* remainder; r is what the places above i left over
        Long(i, r) ==
            IF i = 0 THEN <<r>>
            ELSE LET cur == DigitBase * r + a[i]
                 IN  <<cur \div d>> \o Long(i - 1, cur % d)
        n == Len(a)
        digits == Long(n, 0)
    IN  [r |-> digits[n + 1], q |-> Trimmed([i \in 1..n |-> digits[n + 1 - i]])]

\* a divided by 2^k: the quotient, and whether anything is left over
ShiftRight(a, k) ==
    LET n == k \div DigitBits
        s == k % DigitBits
        low == SubSeq(a, 1, IF n < Len(a) THEN n ELSE Len(a))
        high == SubSeq(a, n + 1, Len(a))
        place(i) == (high[i] \div Pow2(s))
                    + (IF i < Len(high) THEN (high[i + 1] % Pow2(s)) * Pow2(DigitBits - s) ELSE 0)
    IN  [q |-> Trimmed([i \in 1..Len(high) |-> place(i)]),
         rest |-> (high # <<>> /\ high[1] % Pow2(s) # 0) \/ \E i \in 1..Len(low) : low[i] # 0]

\* the number of binary digits of a
BitLength(a) ==
    IF a = <<>> THEN 0
    ELSE DigitBits * (Len(a) - 1) + Cardinality({ k \in 0..(DigitBits - 1) : Pow2(k) <= a[Len(a)] })

\* A float (IEEE 754 binary64, neither 0 nor subnormal nor infinite here unless
\* m = 0) is m * 2^e with m < 2^MantissaBits, kept with m odd so that equal
\* floats are equal records; 0.0 is m = 0, e = 0.
MantissaBits == 53

RECURSIVE Canonical(_, _)
Canonical(m, e) ==
    IF m = <<>> THEN [m |-> <<>>, e |-> 0]
    ELSE IF m[1] = 0 THEN Canonical(Tail(m), e + DigitBits)
    ELSE LET k == CHOOSE k \in 0..DigitBits : m[1] % Pow2(k) = 0 /\ m[1] % Pow2(k + 1) # 0
         IN  [m |-> ShiftRight(m, k).q, e |-> e + k]

\* the float nearest to E * 2^e (plus something below one unit of E, if
\* sticky): round to nearest, ties to even
RoundToFloat(E, e, sticky) ==
    IF E = <<>> \/ BitLength(E) <= MantissaBits THEN Canonical(E, e)
    ELSE LET drop == BitLength(E) - MantissaBits
             sr == ShiftRight(E, drop - 1)
             kept == ShiftRight(sr.q, 1).q
             up == sr.q[1] % 2 = 1 /\ (sticky \/ sr.rest \/ kept[1] % 2 = 1)
         IN  IF up THEN Canonical(NAdd(kept, <<>>, 1), e + drop)
             ELSE Canonical(kept, e + drop)

\* the float a decimal literal n/d names (0.15 is FloatOfRatio(15, 100)),
\* from the quotient carried to 64 binary places
FloatOfRatio(n, d) ==
    IF n = 0 THEN [m |-> <<>>, e |-> 0]
    ELSE LET dm == NDivMod(ShiftLeft(NatDigits(n), 64), d)
         IN  RoundToFloat(dm.q, 0 - 64, dm.r # 0)

\* the mantissas of x and y over their lower exponent
Aligned(x, y) ==
    LET e == IF x.e < y.e THEN x.e ELSE y.e
    IN  [a |-> ShiftLeft(x.m, x.e - e), b |-> ShiftLeft(y.m, y.e - e), e |-> e]

\* x + y, x < y, x - y, x * y, x / d for an int d. No float here is negative:
\* the only subtractions are those of _score_message_quality, which take at
\* most 0.2 and 0.15 from 0.5.
FAdd(x, y) ==
    IF x.m = <<>> THEN y
    ELSE IF y.m = <<>> THEN x
    ELSE LET al == Aligned(x, y) IN RoundToFloat(NAdd(al.a, al.b, 0), al.e, FALSE)
FLess(x, y) ==
    IF x = y THEN FALSE
    ELSE LET al == Aligned(x, y) IN NLess(al.a, al.b)
FSub(x, y) ==
    IF x = y THEN [m |-> <<>>, e |-> 0]
    ELSE LET al == Aligned(x, y)
         IN  RoundToFloat(Trimmed(NSub(al.a, al.b, 0)), al.e, FALSE)
FMul(x, y) ==
    IF x.m = <<>> \/ y.m = <<>> THEN [m |-> <<>>, e |-> 0]
    ELSE RoundToFloat(NMul(x.m, y.m), x.e + y.e, FALSE)
FDivInt(x, d) ==
    IF x.m = <<>> THEN x
    ELSE LET dm == NDivMod(ShiftLeft(x.m, 64), d)
         IN  RoundToFloat(dm.q, x.e - 64, dm.r # 0)

\* round(x, 2) counted in hundredths: the whole number nearest to 100 * x,
\* ties to even
Hundredths(x) ==
    LET M == NMulDigit(x.m, 100, 0)
    IN  IF x.m = <<>> THEN 0
        ELSE IF x.e >= 0 THEN DigitsNat(ShiftLeft(M, x.e))
        ELSE LET sr == ShiftRight(M, (0 - x.e) - 1)
                 q == DigitsNat(ShiftRight(sr.q, 1).q)
             IN  IF sr.q # <<>> /\ sr.q[1] % 2 = 1 /\ (sr.rest \/ q % 2 = 1) THEN q + 1
                 ELSE q

\* round(x, 2): the float nearest to that many hundredths
round2(x) == FloatOfRatio(Hundredths(x), 100)

\* ---------------------------------------------------- quality_scorer.py
\* A str is the sequence of its characters.
Uppercase ==
    <<"A", "B", "C", "D", "E", "F", "G", "H", "I", "J", "K", "L", "M", "N",
      "O", "P", "Q", "R", "S", "T", "U", "V", "W", "X", "Y", "Z">>

\* str.lower()
lower(s) ==
    LET Lowercase ==
            <<"a", "b", "c", "d", "e", "f", "g", "h", "i", "j", "k", "l",
              "m", "n", "o", "p", "q", "r", "s", "t", "u", "v", "w", "x",
              "y", "z">>
    IN  [i \in 1..Len(s) |->
            IF \E k \in 1..Len(Uppercase) : Uppercase[k] = s[i]
            THEN Lowercase[CHOOSE k \in 1..Len(Uppercase) : Uppercase[k] = s[i]]
            ELSE s[i]]

\* the characters of s as one text
RECURSIVE Text(_)
Text(s) == IF s = <<>> THEN "" ELSE s[1] \o Text(Tail(s))

\* message.split()[0] if message else "": the messages come from
\* commit.message.strip() (git_parser.py:59), so a message that is not
\* empty starts with its first word
RECURSIVE first_word(_)
first_word(message) ==
    IF message = <<>> \/ message[1] \in {" ", "\n", "\t"} THEN <<>>
    ELSE <<message[1]>> \o first_word(Tail(message))

imperative_verbs ==
    { "add", "fix", "update", "remove", "refactor", "implement",
      "create", "delete", "modify", "improve", "optimize", "enhance",
      "resolve", "correct", "adjust", "integrate" }

generic_messages ==
    { "update", "fix stuff", "changes", "wip", "work in progress", "misc",
      "various", "stuff", "things", "quick fix" }

\* any(generic in message.lower() for generic in self.generic_messages)
is_generic(message) ==
    LET low == lower(message)
    IN  \E i \in 1..Len(low) : \E j \in i..Len(low) :
            j - i < 16 /\ Text(SubSeq(low, i, j)) \in generic_messages

\* max(0.0, min(1.0, score))
unclamped(score) == score
clamped(score) ==
    LET one == FloatOfRatio(1, 1)
        least == IF FLess(one, score) THEN one ELSE score
    IN  IF FLess(FloatOfRatio(0, 1), least) THEN least ELSE FloatOfRatio(0, 1)

score_message_quality(message) ==
    LET msg_length == Len(message)
        \* each statement of the function, from the score before it
        length_check(score) ==
            IF 10 < msg_length /\ msg_length < 100 THEN FAdd(score, FloatOfRatio(15, 100))
            ELSE IF msg_length < 10 THEN FSub(score, FloatOfRatio(2, 10))
            ELSE IF msg_length > 150 THEN FSub(score, FloatOfRatio(1, 10))
            ELSE score
        imperative_verb(score) ==
            IF Text(lower(first_word(message))) \in imperative_verbs
            THEN FAdd(score, FloatOfRatio(20, 100)) ELSE score
        not_generic(score) ==
            IF ~is_generic(message) THEN FAdd(score, FloatOfRatio(15, 100))
            ELSE FSub(score, FloatOfRatio(15, 100))
        capitalization(score) ==
            IF message # <<>> /\ (\E k \in 1..Len(Uppercase) : Uppercase[k] = message[1])
            THEN FAdd(score, FloatOfRatio(5, 100)) ELSE score
        no_trailing_period(score) ==
            IF ~(message # <<>> /\ message[Len(message)] = ".")
            THEN FAdd(score, FloatOfRatio(5, 100)) ELSE score
    IN  clamped(no_trailing_period(capitalization(not_generic(imperative_verb(
            length_check(FloatOfRatio(5, 10)))))))

\* Config.SIZE_SMALL, SIZE_MEDIUM, SIZE_LARGE
SIZE_SMALL == 50
SIZE_MEDIUM == 200
SIZE_LARGE == 500

score_size_appropriateness(commit) ==
    LET total_changes == commit.insertions + commit.deletions
        size_score == IF total_changes < SIZE_SMALL THEN FloatOfRatio(1, 1)
                      ELSE IF total_changes < SIZE_MEDIUM THEN FloatOfRatio(85, 100)
                      ELSE IF total_changes < SIZE_LARGE THEN FloatOfRatio(65, 100)
                      ELSE FloatOfRatio(35, 100)
    IN  IF commit.files_changed > 10 THEN FMul(size_score, FloatOfRatio(8, 10))
        ELSE IF commit.files_changed > 20 THEN FMul(size_score, FloatOfRatio(6, 10))
        ELSE size_score

\* A path is the sequence of its parts between the '/'.
\* f.split('/')[0] if '/' in f else ''
score_focus(commit) ==
    LET directories == { IF Len(commit.files[i]) > 1 THEN commit.files[i][1] ELSE "" :
                           i \in 1..Len(commit.files) }
    IN  IF commit.files = <<>> THEN FloatOfRatio(5, 10)
        ELSE IF Cardinality(directories) = 1 THEN FloatOfRatio(1, 1)
        ELSE IF Cardinality(directories) <= 3 THEN FloatOfRatio(75, 100)
        ELSE IF Cardinality(directories) <= 5 THEN FloatOfRatio(5, 10)
        ELSE FloatOfRatio(3, 10)

\* Config.QUALITY_THRESHOLD_LOW, QUALITY_THRESHOLD_HIGH
QUALITY_THRESHOLD_LOW == FloatOfRatio(6, 10)
QUALITY_THRESHOLD_HIGH == FloatOfRatio(8, 10)

\* _generate_suggestions: the list of suggestions, in the order appended
generate_suggestions_ungated(commit, msg_score, size_score, focus_score) ==
    LET message == commit.message
        total_changes == commit.insertions + commit.deletions
        when(cond, text) == IF cond THEN <<text>> ELSE <<>>
    IN  when(Len(message) < 10, "Add more detail to commit message")
        \o when(Text(lower(first_word(message))) \notin imperative_verbs,
                "Start with imperative verb (add, fix, update, etc.)")
        \o when(is_generic(message), "Be more specific - avoid generic terms")
        \o when(FLess(size_score, FloatOfRatio(6, 10)) /\ total_changes > SIZE_LARGE,
                "Split into smaller commits (current: " \o ToString(total_changes) \o " lines)")
        \o when(FLess(focus_score, FloatOfRatio(6, 10)) /\ commit.files_changed > 10,
                "Commit touches many files (" \o ToString(commit.files_changed)
                    \o ") - consider splitting")
generate_suggestions(commit, msg_score, size_score, focus_score) ==
    LET message == commit.message
        total_changes == commit.insertions + commit.deletions
        when(cond, text) == IF cond THEN <<text>> ELSE <<>>
    IN  (IF FLess(msg_score, FloatOfRatio(6, 10))
         THEN when(Len(message) < 10, "Add more detail to commit message")
              \o when(Text(lower(first_word(message))) \notin imperative_verbs,
                      "Start with imperative verb (add, fix, update, etc.)")
              \o when(is_generic(message), "Be more specific - avoid generic terms")
         ELSE <<>>)
        \o when(FLess(size_score, FloatOfRatio(6, 10)) /\ total_changes > SIZE_LARGE,
                "Split into smaller commits (current: " \o ToString(total_changes) \o " lines)")
        \o when(FLess(focus_score, FloatOfRatio(6, 10)) /\ commit.files_changed > 10,
                "Commit touches many files (" \o ToString(commit.files_changed)
                    \o ") - consider splitting")

\* _score_single_commit
score_single_commit(commit) ==
    LET quality_score(message_score, size_score, focus_score, overall) ==
            [message_quality |-> round2(message_score),
             size_appropriateness |-> round2(size_score),
             focus |-> round2(focus_score),
             overall |-> round2(overall),
             grade |-> IF ~FLess(overall, QUALITY_THRESHOLD_HIGH) THEN "A"
                       ELSE IF ~FLess(overall, QUALITY_THRESHOLD_LOW) THEN "B"
                       ELSE "C",
             suggestions |-> generate_suggestions(commit, message_score, size_score,
                                                  focus_score)]
        averaged(message_score, size_score, focus_score) ==
            quality_score(message_score, size_score, focus_score,
                          FDivInt(FAdd(FAdd(message_score, size_score), focus_score), 3))
    IN  averaged(score_message_quality(commit.message),
                 score_size_appropriateness(commit),
                 score_focus(commit))

\* The messages: the two of the example scenario, the empty message, a
\* generic one with a capital and a full stop, and one of more than 150
\* characters.
MsgFix == <<"f", "i", "x">>
MsgAddRetry ==
    <<"A", "d", "d", " ", "r", "e", "t", "r", "y", " ", "l", "o", "g", "i",
      "c", " ", "w", "i", "t", "h", " ", "e", "x", "p", "o", "n", "e", "n",
      "t", "i", "a", "l", " ", "b", "a", "c", "k", "o", "f", "f", " ", "f",
      "o", "r", " ", "f", "l", "a", "k", "y", " ", "n", "e", "t", "w", "o",
      "r", "k", " ", "c", "a", "l", "l", "s">>
Messages ==
    { MsgFix, MsgAddRetry, <<>>,
      <<"U", "p", "d", "a", "t", "e", ".">>,
      <<"R", "e", "w", "o", "r", "k", " ">> \o [i \in 1..150 |-> "x"] }

\* commit.stats.files of a commit that touches n files in k directories (the
\* first of them the root of the repository)
StatsFiles(k, n) ==
    [i \in 1..n |-> IF i % k = 1 \/ k = 1 THEN <<"f" \o ToString(i)>>
                    ELSE <<"d" \o ToString(i % k), "f" \o ToString(i)>>]

\* the commit dicts of git_parser.py:56-67, cut to the fields the scorer
\* reads; files_changed is len(commit.stats.files)
ScorerCommits ==
    { [message |-> m, insertions |-> ins, deletions |-> del,
       files_changed |-> Len(fs), files |-> fs] :
        m \in Messages, ins \in {49, 499}, del \in {0, 2},
        fs \in {<<>>} \cup { StatsFiles(kn[1], kn[2]) :
                             kn \in {<<1, 1>>, <<2, 2>>, <<4, 11>>, <<6, 21>>} } }

\* _score_single_commit over the commits above (it reads nothing but its
\* argument)
QualityScoreOf == [c \in ScorerCommits |-> score_single_commit(c)]

\* score_commits: a copy of each commit with its quality_score, which is
\* computed from the five fields the scorer reads
score_commits(cs) ==
    [i \in 1..Len(cs) |->
        [commit |-> cs[i],
         quality_score |->
             QualityScoreOf[[message |-> cs[i].message,
                             insertions |-> cs[i].insertions,
                             deletions |-> cs[i].deletions,
                             files_changed |-> cs[i].files_changed,
                             files |-> cs[i].files]]]]

\* get_summary_stats, without average_score and needs_improvement
get_summary_stats(scored_commits) ==
    LET overall(i) == scored_commits[i].quality_score.overall
        n == Len(scored_commits)
    IN  IF scored_commits = <<>> THEN [total_commits |-> 0, empty |-> TRUE]
        ELSE [total_commits |-> n,
              empty |-> FALSE,
              high_quality |-> Cardinality({ i \in 1..n : ~FLess(overall(i), QUALITY_THRESHOLD_HIGH) }),
              medium_quality |-> Cardinality({ i \in 1..n :
                                    /\ ~FLess(overall(i), QUALITY_THRESHOLD_LOW)
                                    /\ FLess(overall(i), QUALITY_THRESHOLD_HIGH) }),
              low_quality |-> Cardinality({ i \in 1..n : FLess(overall(i), QUALITY_THRESHOLD_LOW) })]

\* the variables of the other component at rest
SessIdle == commits = <<>> /\ gap_hours = 0 /\ sessions = <<>> /\ spc = "idle"
CacheIdle ==
    /\ enabled = TRUE /\ hits = 0 /\ misses = 0
    /\ files = [k \in Keys |-> Absent]
    /\ now = 0 /\ ticks = 0 /\ foreign = 0 /\ op = NoCall
    /\ writer = WriterIdle
KeyIdle == kargs = <<>> /\ kkeys = <<>>
AnIdle == use_cache = FALSE /\ calls = 0 /\ api_calls = 0 /\ call = [prompt |-> ""]
ScoreIdle == scommits = <<>> /\ scored = <<>> /\ summary = <<>> /\ qpc = "idle"
MainIdle == stages = <<>> /\ run = <<>> /\ mpc = "idle"
PipeIdle == categorizations = <<>> /\ temporal_data = <<>>
NotPending == [pc |-> "idle", key |-> "", max_age |-> NoneInt, listed |-> {}]
StatIdle == main_cache = <<>> /\ stats_line = <<>>
RestIdle ==
    /\ KeyIdle /\ AnIdle /\ ScoreIdle /\ MainIdle /\ PipeIdle
    /\ pending = NotPending /\ StatIdle

\* ------------------------------------------------- group_into_sessions
SessInit ==
    /\ commits \in CommitLists
    /\ gap_hours \in GapHours
    /\ sessions = <<>>
    /\ spc = "input"
    /\ CacheIdle
    /\ RestIdle

GroupIntoSessions ==
    /\ spc = "input"
    /\ sessions' = group_into_sessions(commits, gap_hours)
    /\ spc' = "done"
    /\ UNCHANGED <<commits, gap_hours, cacheVars, restVars>>

SessNext == GroupIntoSessions

SpecSessions == SessInit /\ [][SessNext]_vars

\* ------------------------------------------------------- CacheManager
\* __init__: the counters at 0, enabled from Config.CACHE_ENABLED; the cache
\* directory starts empty
CacheInit ==
    /\ enabled \in BOOLEAN
    /\ hits = 0 /\ misses = 0
    /\ files = [k \in Keys |-> Absent]
    /\ now = 0 /\ ticks = 0 /\ foreign = 0
    /\ op = NoCall
    /\ writer = WriterIdle
    /\ SessIdle
    /\ RestIdle

Get(prompt, model, params, max_age_hours) ==
    LET key == generate_cache_key(prompt, model, params)
        out == get_outcome(files[key], max_age_hours)
    IN  /\ hits + misses < MaxGets
        /\ IF get_returns_at_once
           THEN /\ op' = Call("get", key, max_age_hours, RetNone, "")
                /\ UNCHANGED <<hits, misses, files, writer>>
           ELSE /\ hits' = hits + out.hits
                /\ misses' = misses + out.misses
                /\ files' = IF out.unlink THEN [files EXCEPT ![key] = Absent] ELSE files
                /\ writer' = IF out.unlink THEN Unlinked(writer, {key}) ELSE writer
                /\ op' = Call("get", key, max_age_hours, out.ret, out.raised)
        /\ UNCHANGED <<enabled, now, ticks, foreign, sessVars, restVars>>

\* set; io is how the write went: "ok", "open_fails" (open raises, the file
\* is as it was) or "write_fails" (open has truncated the file and json.dump
\* or the close raises: what is left is not JSON). Either failure is caught
\* and printed.
Set(prompt, model, response, params, io) ==
    LET key == generate_cache_key(prompt, model, params)
    IN  /\ IF set_returns_at_once \/ io = "open_fails" THEN UNCHANGED files
           ELSE IF io = "write_fails"
           THEN files' = [files EXCEPT ![key] = Damaged("invalid", now)]
           ELSE files' = [files EXCEPT ![key] = WrittenEntry(now, JsonRoundTrip(response))]
        /\ op' = Call("set", key, NoneInt, RetNone, "")
        /\ UNCHANGED <<enabled, hits, misses, now, ticks, foreign, writer, sessVars, restVars>>

\* clear: unlinks the files whose mtime is before the cutoff; returns nothing
Clear(max_age_days) ==
    LET max_age == OrDefault(max_age_days, CACHE_MAX_AGE_DAYS)
        cutoff == now - max_age * HoursPerDay
        old == { k \in Keys : files[k].json # "absent" /\ files[k].mtime < cutoff }
    IN  /\ files' = [k \in Keys |-> IF k \in old THEN Absent ELSE files[k]]
        /\ writer' = Unlinked(writer, old)
        /\ op' = Call("clear", "", max_age_days, RetNone, "")
        /\ UNCHANGED <<enabled, hits, misses, now, ticks, foreign, sessVars, restVars>>

ClearAll ==
    /\ files' = [k \in Keys |-> Absent]
    /\ writer' = Unlinked(writer, { k \in Keys : files[k].json # "absent" })
    /\ hits' = 0
    /\ misses' = 0
    /\ op' = Call("clear_all", "", NoneInt, RetNone, "")
    /\ UNCHANGED <<enabled, now, ticks, foreign, sessVars, restVars>>

\* get_stats, without size_mb
GetStats ==
    /\ op' = Call("get_stats", "", NoneInt,
                  [kind |-> "stats", enabled |-> enabled, hits |-> hits, misses |-> misses,
                   hit_rate |-> hit_rate(hits, misses),
                   total_files |-> Cardinality({ k \in Keys : files[k].json # "absent" })],
                  "")
    /\ UNCHANGED <<enabled, hits, misses, files, now, ticks, foreign, writer, sessVars, restVars>>

\* time passes: an hour, or the CACHE_MAX_AGE_DAYS of the default purge
TickSteps == {1, CACHE_MAX_AGE_DAYS * HoursPerDay}

Tick(d) ==
    /\ ticks < MaxTicks
    /\ now' = now + d
    /\ ticks' = ticks + 1
    /\ op' = NoCall
    /\ UNCHANGED <<enabled, hits, misses, files, foreign, writer, sessVars, restVars>>

\* What get may find in a file it did not write itself (another program or
\* version, a damaged disk): the shapes the try block of get tells apart.
ForeignShapes == {"invalid", "nondict", "no_timestamp", "bad_timestamp",
                  "nonstr_timestamp", "no_response"}

ForeignEntry(shape, t) ==
    CASE shape = "invalid" -> Damaged("invalid", t)
      [] shape = "nondict" -> Damaged("nondict", t)
      [] shape = "no_timestamp" -> [WrittenEntry(t, "r1") EXCEPT !.tsKind = "missing", !.ts = 0]
      [] shape = "bad_timestamp" -> [WrittenEntry(t, "r1") EXCEPT !.tsKind = "badstr", !.ts = 0]
      [] shape = "nonstr_timestamp" -> [WrittenEntry(t, "r1") EXCEPT !.tsKind = "nonstr", !.ts = 0]
      [] shape = "no_response" -> WrittenEntry(t, Missing)

ForeignWrite(key, shape) ==
    /\ foreign < MaxForeign
    /\ foreign' = foreign + 1
    /\ files' = [files EXCEPT ![key] = ForeignEntry(shape, now)]
    /\ op' = NoCall
    /\ UNCHANGED <<enabled, hits, misses, now, ticks, writer, sessVars, restVars>>

CacheNext ==
    \/ \E p \in Prompts, m \in Models, a \in MaxAgeArgs : Get(p, m, NoParams, a)
    \/ \E p \in Prompts, m \in Models, r \in Responses,
          io \in {"ok", "open_fails", "write_fails"} : Set(p, m, r, NoParams, io)
    \/ \E d \in MaxAgeArgs : Clear(d)
    \/ ClearAll
    \/ GetStats
    \/ \E d \in TickSteps : Tick(d)
    \/ \E k \in Keys, shape \in ForeignShapes : ForeignWrite(k, shape)

SpecCache == CacheInit /\ [][CacheNext]_vars

\* ------------------------------------- two processes, one cache directory
\* The second process runs set(prompt, model, response) on the same
\* directory. Its open(cache_file, 'w') creates or truncates the file at
\* once; json.dump writes into the buffer of f, which reaches the file when
\* the buffer fills or the with block closes f.
WriterOpen(prompt, model, response) ==
    LET key == generate_cache_key(prompt, model, NoParams)
    IN  /\ writer.pc = "idle"
        /\ writer' = [pc |-> "open", key |-> key, response |-> response, ts |-> now,
                      linked |-> TRUE]
        /\ files' = [files EXCEPT ![key] = Damaged("invalid", now)]
        /\ op' = NoCall
        /\ UNCHANGED <<enabled, hits, misses, now, ticks, foreign, sessVars, restVars>>

\* The with block of the second process ends. If its file was unlinked in the
\* meantime the entry goes to a file no name leads to. If the first process
\* has written the same file in the meantime, the second writes over it from
\* offset 0: its own entry is left, or its entry followed by the rest of the
\* longer one, which is not JSON.
WriterClose(mixed) ==
    LET key == writer.key
        mine == [WrittenEntry(writer.ts, JsonRoundTrip(writer.response)) EXCEPT !.mtime = now]
    IN  /\ writer.pc = "open"
        /\ mixed => writer.linked /\ files[key].json = "dict"
        /\ files' = IF ~writer.linked THEN files
                    ELSE IF mixed THEN [files EXCEPT ![key] = Damaged("invalid", now)]
                    ELSE [files EXCEPT ![key] = mine]
        /\ writer' = WriterIdle
        /\ op' = NoCall
        /\ UNCHANGED <<enabled, hits, misses, now, ticks, foreign, sessVars, restVars>>

ConcNext ==
    \/ \E p \in Prompts, m \in Models, a \in MaxAgeArgs : Get(p, m, NoParams, a)
    \/ \E p \in Prompts, m \in Models, r \in Responses,
          io \in {"ok", "open_fails", "write_fails"} : Set(p, m, r, NoParams, io)
    \/ ClearAll
    \/ \E p \in Prompts, m \in Models, r \in Responses : WriterOpen(p, m, r)
    \/ \E mixed \in BOOLEAN : WriterClose(mixed)

SpecCacheConc == CacheInit /\ [][ConcNext]_vars

\* ------------------------------------------------- _generate_cache_key
\* The arguments of the calls: model and prompt texts with and without the
\* ':' that _generate_cache_key puts between them, and for params None, the
\* empty dict and the dicts over MaxParamKeys keys in every insertion order.
KeyModels == {"m", "m:x"}
KeyPrompts == {"p", "x:p"}
ParamValues == {"1", "2"}

Dicts ==
    UNION { { Dict(items) : items \in { s \in [1..n -> [key : 1..MaxParamKeys, val : ParamValues]] :
                                          \A i, j \in 1..n : s[i].key = s[j].key => i = j } }
            : n \in 0..MaxParamKeys }

KeyArgs == [model : KeyModels, prompt : KeyPrompts, params : {NoParams} \cup Dicts]

KeyInit ==
    /\ kargs \in [1..2 -> KeyArgs]
    /\ kkeys = <<>>
    /\ SessIdle
    /\ CacheIdle
    /\ AnIdle
    /\ ScoreIdle
    /\ MainIdle
    /\ PipeIdle
    /\ pending = NotPending
    /\ StatIdle

\* the next call of _generate_cache_key
GenerateCacheKey ==
    LET a == kargs[Len(kkeys) + 1]
    IN  /\ Len(kkeys) < Len(kargs)
        /\ kkeys' = Append(kkeys, generate_cache_key(a.prompt, a.model, a.params))
        /\ UNCHANGED <<kargs, sessVars, cacheVars, anVars, scoreVars, mainVars, pipeVars, pending, statVars>>

KeyNext == GenerateCacheKey

SpecKey == KeyInit /\ [][KeyNext]_vars

\* ------------------------- get and get_stats against concurrent deletion
\* a directory that earlier calls of set have filled
RaceInit ==
    /\ enabled \in BOOLEAN
    /\ hits = 0 /\ misses = 0
    /\ files \in [Keys -> {Absent} \cup { WrittenEntry(0, JsonRoundTrip(r)) : r \in Responses }]
    /\ now = 0 /\ ticks = 0 /\ foreign = 0
    /\ op = NoCall
    /\ writer = WriterIdle
    /\ pending = NotPending
    /\ SessIdle
    /\ KeyIdle /\ AnIdle /\ ScoreIdle /\ MainIdle /\ PipeIdle /\ StatIdle

\* get up to `if not cache_file.exists()`
GetExists(prompt, model, max_age_hours) ==
    LET key == generate_cache_key(prompt, model, NoParams)
    IN  /\ pending.pc = "idle"
        /\ hits + misses < MaxGets
        /\ IF get_returns_at_once
           THEN /\ op' = Call("get", key, max_age_hours, RetNone, "")
                /\ UNCHANGED <<misses, pending>>
           ELSE IF files[key].json = "absent"
           THEN /\ misses' = misses + 1
                /\ op' = Call("get", key, max_age_hours, RetNone, "")
                /\ UNCHANGED pending
           ELSE /\ pending' = [NotPending EXCEPT !.pc = "get", !.key = key,
                                                 !.max_age = max_age_hours]
                /\ op' = NoCall
                /\ UNCHANGED misses
        /\ UNCHANGED <<enabled, hits, files, now, ticks, foreign, writer, sessVars, keyVars,
                       anVars, scoreVars, mainVars, pipeVars, statVars>>

\* get from open(cache_file, 'r') on. The open of a file that is gone raises
\* FileNotFoundError, which the except clause does not name.
GetRead ==
    LET key == pending.key
        out == IF files[key].json = "absent" THEN Escapes("FileNotFoundError")
               ELSE get_outcome(files[key], pending.max_age)
    IN  /\ pending.pc = "get"
        /\ pending' = NotPending
        /\ hits' = hits + out.hits
        /\ misses' = misses + out.misses
        /\ files' = IF out.unlink THEN [files EXCEPT ![key] = Absent] ELSE files
        /\ op' = Call("get", key, pending.max_age, out.ret, out.raised)
        /\ UNCHANGED <<enabled, now, ticks, foreign, writer, sessVars, keyVars, anVars,
                       scoreVars, mainVars, pipeVars, statVars>>

\* get_stats up to list(self.cache_dir.glob("*.json"))
StatsGlob ==
    /\ pending.pc = "idle"
    /\ pending' = [NotPending EXCEPT !.pc = "get_stats",
                                     !.listed = { k \in Keys : files[k].json # "absent" }]
    /\ op' = NoCall
    /\ UNCHANGED <<enabled, hits, misses, files, now, ticks, foreign, writer, sessVars,
                   keyVars, anVars, scoreVars, mainVars, pipeVars, statVars>>

\* get_stats from sum(f.stat().st_size for f in cache_files) on, without
\* size_mb. The stat of a file that is gone raises FileNotFoundError.
StatsStat ==
    /\ pending.pc = "get_stats"
    /\ pending' = NotPending
    /\ op' = IF \E k \in pending.listed : files[k].json = "absent"
             THEN Call("get_stats", "", NoneInt, RetNone, "FileNotFoundError")
             ELSE Call("get_stats", "", NoneInt,
                       [kind |-> "stats", enabled |-> enabled, hits |-> hits,
                        misses |-> misses, hit_rate |-> hit_rate(hits, misses),
                        total_files |-> Cardinality(pending.listed)],
                       "")
    /\ UNCHANGED <<enabled, hits, misses, files, now, ticks, foreign, writer, sessVars,
                   keyVars, anVars, scoreVars, mainVars, pipeVars, statVars>>

\* another process on the same directory unlinks one file: a step of its
\* clear or clear_all loop, or the unlink of its get
OtherProcessUnlinks(key) ==
    /\ files[key].json # "absent"
    /\ files' = [files EXCEPT ![key] = Absent]
    /\ UNCHANGED <<enabled, hits, misses, now, ticks, foreign, op, writer, pending, sessVars,
                   keyVars, anVars, scoreVars, mainVars, pipeVars, statVars>>

SpecCacheRace ==
    RaceInit
    /\ [][\/ \E p \in Prompts, m \in Models, a \in MaxAgeArgs : GetExists(p, m, a)
          \/ GetRead
          \/ StatsGlob
          \/ StatsStat
          \/ \E k \in Keys : OtherProcessUnlinks(k)]_vars

\* ------------------------------------------------------ ClaudeAnalyzer
\* self.model
self_model == "m"

\* message.content[0].text of a completion: a text, which may be empty
ApiResponses == {"", "r1"}
\* what self.client.messages.create does: a completion, or an exception (of
\* the client, or the IndexError of content[0] on an empty content list)
ApiOutcomes == { [ok |-> TRUE, text |-> r] : r \in ApiResponses } \cup {[ok |-> FALSE, text |-> ""]}

\* `if cached:` on what cache.get returned: None and '' are both falsy
CachedIsTruthy(ret) == ret.kind = "value" /\ ret.val # ""

\* the except branch of _call_claude: the error is raised again and the
\* cache directory is left as the lookup left it
on_api_error_storing(fs, key, entry) == [fs EXCEPT ![key] = entry]
on_api_error(fs, key, entry) == fs

\* __init__ with the API key configured; the CacheManager it makes has an
\* empty directory
AnInit ==
    /\ use_cache \in BOOLEAN
    /\ calls = 0 /\ api_calls = 0
    /\ call = [prompt |-> ""]
    /\ enabled \in BOOLEAN
    /\ hits = 0 /\ misses = 0
    /\ files = [k \in Keys |-> Absent]
    /\ now = 0 /\ ticks = 0 /\ foreign = 0
    /\ op = NoCall
    /\ writer = WriterIdle
    /\ SessIdle
    /\ KeyIdle
    /\ ScoreIdle
    /\ MainIdle
    /\ PipeIdle
    /\ pending = NotPending
    \* cache = CacheManager() in main(): __init__ sets both counters to 0
    /\ main_cache = [hits |-> 0, misses |-> 0]
    /\ stats_line = <<>>

\* _call_claude(prompt): cache.get, then on a falsy result the request and
\* cache.set. api is what the request would do, io how the write of set
\* would go.
CallClaude(prompt, api, io) ==
    LET key == generate_cache_key(prompt, self_model, NoParams)
        looks == use_cache /\ ~get_returns_at_once
        out == IF looks THEN get_outcome(files[key], NoneInt)
               ELSE Outcome(RetNone, 0, 0, FALSE, "")
        files1 == IF out.unlink THEN [files EXCEPT ![key] = Absent] ELSE files
        stores == use_cache /\ ~set_returns_at_once /\ io # "open_fails"
        written == IF io = "write_fails" THEN Damaged("invalid", now)
                   ELSE WrittenEntry(now, JsonRoundTrip(api.text))
    IN  /\ calls < MaxCalls
        /\ calls' = calls + 1
        /\ hits' = hits + out.hits
        /\ misses' = misses + out.misses
        /\ IF out.raised # ""
           THEN \* cache.get is outside the try block
                /\ call' = [prompt |-> prompt, ret |-> RetNone, raised |-> out.raised]
                /\ op' = Call("get", key, NoneInt, out.ret, out.raised)
                /\ files' = files1
                /\ UNCHANGED api_calls
           ELSE IF CachedIsTruthy(out.ret)
           THEN /\ call' = [prompt |-> prompt, ret |-> out.ret, raised |-> ""]
                /\ op' = Call("get", key, NoneInt, out.ret, "")
                /\ files' = files1
                /\ UNCHANGED api_calls
           ELSE /\ api_calls' = api_calls + 1
                /\ IF api.ok
                   THEN /\ call' = [prompt |-> prompt, ret |-> RetValue(api.text), raised |-> ""]
                        /\ files' = IF stores THEN [files1 EXCEPT ![key] = written] ELSE files1
                        /\ op' = IF use_cache THEN Call("set", key, NoneInt, RetNone, "")
                                  ELSE op
                   ELSE /\ call' = [prompt |-> prompt, ret |-> RetNone,
                                    raised |-> "Exception: Claude API error"]
                        /\ files' = on_api_error(files1, key, written)
                        /\ op' = IF use_cache THEN Call("get", key, NoneInt, out.ret, "")
                                  ELSE op
        /\ UNCHANGED <<use_cache, enabled, now, ticks, foreign, writer, sessVars, keyVars,
                       scoreVars, mainVars, pipeVars, pending, statVars>>

\* main.py:266-269, after the calls of steps 4 and 6: the counters printed
\* are those of the CacheManager that main() made and passed in; the analyzer
\* looks up in a CacheManager of its own (claude_analyzer.py:36)
PrintCacheStats ==
    /\ use_cache
    /\ calls > 0
    /\ stats_line = <<>>
    /\ stats_line' = [hits |-> main_cache.hits, misses |-> main_cache.misses,
                      hit_rate |-> hit_rate(main_cache.hits, main_cache.misses)]
    /\ UNCHANGED <<main_cache, sessVars, cacheVars, keyVars, anVars, scoreVars, mainVars,
                   pipeVars, pending>>

AnNext ==
    \/ \E p \in Prompts, api \in ApiOutcomes, io \in {"ok", "open_fails", "write_fails"} :
          CallClaude(p, api, io)
    \/ \E d \in TickSteps : Tick(d)
    \/ PrintCacheStats

SpecAnalyzer == AnInit /\ [][AnNext]_vars

\* ------------------------------------------------------- QualityScorer
ScoreInit ==
    /\ scommits \in UNION { [1..n -> ScorerCommits] : n \in 0..MaxScored }
    /\ scored = <<>>
    /\ summary = <<>>
    /\ qpc = "input"
    /\ SessIdle
    /\ CacheIdle
    /\ KeyIdle
    /\ AnIdle
    /\ MainIdle
    /\ PipeIdle
    /\ pending = NotPending
    /\ StatIdle

ScoreCommits ==
    /\ qpc = "input"
    /\ scored' = score_commits(scommits)
    /\ qpc' = "scored"
    /\ UNCHANGED <<scommits, summary, sessVars, cacheVars, keyVars, anVars, mainVars, pipeVars, pending, statVars>>

GetSummaryStats ==
    /\ qpc = "scored"
    /\ summary' = get_summary_stats(scored)
    /\ qpc' = "done"
    /\ UNCHANGED <<scommits, scored, sessVars, cacheVars, keyVars, anVars, mainVars, pipeVars, pending, statVars>>

ScoreNext == ScoreCommits \/ GetSummaryStats

SpecScorer == ScoreInit /\ [][ScoreNext]_vars

\* the same for one commit at a time
ScoreOneInit ==
    /\ scommits \in [1..1 -> ScorerCommits]
    /\ scored = <<>>
    /\ summary = <<>>
    /\ qpc = "input"
    /\ SessIdle
    /\ CacheIdle
    /\ KeyIdle
    /\ AnIdle
    /\ MainIdle
    /\ PipeIdle
    /\ pending = NotPending
    /\ StatIdle

SpecScoreOne == ScoreOneInit /\ [][ScoreNext]_vars

\* ------------------------------------------------- handle_single_repo
\* What each stage of a run meets. parse: GitParser(...) and
\* get_recent_commits give commits, give none, or raise. init:
\* ClaudeAnalyzer(...) raises without an API key. analyze, style, categorize
\* and narrative: the request of _call_claude fails or not. save:
\* NarrativeGenerator raises or not.
\* args.formats: one or more of Config.OUTPUT_FORMATS (nargs='+'), of which
\* two are taken here
FormatLists == UNION { [1..n -> {"standup", "technical"}] : n \in 1..MaxFormats }

\* formats is args.formats, narrative what the request of each of them meets
StageOutcomes ==
    UNION { { [parse |-> parse, init |-> init, analyze |-> analyze, style |-> style,
               categorize |-> categorize, formats |-> formats, narrative |-> narrative,
               save |-> save] :
                parse \in {"ok", "empty", "raises"}, init \in {"ok", "raises"},
                analyze \in {"ok", "raises"}, style \in {"ok", "raises"},
                categorize \in {"ok", "raises"}, save \in {"ok", "raises"},
                narrative \in [1..Len(formats) -> {"ok", "raises"}] }
            : formats \in FormatLists }

\* return <code>, after the last line printed; narratives is what step 6 has
\* left: the formats generate_narrative was called for, and the keys of the
\* narratives dict
Returned(code, printed, narratives) ==
    [kind |-> "returned", code |-> code, printed |-> printed, narratives |-> narratives]
\* an exception that leaves the function
Escaped(exception) == [kind |-> "raised", exception |-> exception]

\* _call_claude, lines 56-72: every exception of the request is raised again
\* as Exception("Claude API error: ..."); analyze_commits,
\* analyze_writing_style and categorize_commits do not catch it
call_claude_raises(api) == api = "raises"

\* the except branch of the loop of step 6: the error is printed and the loop
\* goes on with the formats that remain
narrative_error_ends_loop(remaining) == <<>>
narrative_error_skips(remaining) == remaining

\* for format_type in args.formats: ... (main.py:236-246), from position i
RECURSIVE generate_narratives(_, _, _, _)
generate_narratives(remaining, narrative, i, narratives) ==
    IF remaining = <<>> THEN narratives
    ELSE IF call_claude_raises(narrative[i])
    THEN generate_narratives(narrative_error_skips(Tail(remaining)), narrative, i + 1,
                             [narratives EXCEPT !.attempted = Append(@, remaining[1])])
    ELSE generate_narratives(Tail(remaining), narrative, i + 1,
                             [attempted |-> Append(narratives.attempted, remaining[1]),
                              keys |-> narratives.keys \cup {remaining[1]}])

NoNarratives == [attempted |-> <<>>, keys |-> {}]

\* handle_single_repo. Commits that are not empty give sessions that are not
\* empty, so `if not sessions` is never taken; the search of step 5 catches
\* its own errors and changes nothing below it.
handle_single_repo(st) ==
    IF st.parse = "raises" THEN Returned(1, "[ERROR] Error", NoNarratives)
    ELSE IF st.parse = "empty" THEN Returned(1, "[WARNING] No commits found", NoNarratives)
    ELSE IF st.init = "raises" THEN Returned(1, "[ERROR] Error", NoNarratives)
    ELSE IF call_claude_raises(st.analyze) THEN Escaped("Exception: Claude API error")
    ELSE IF call_claude_raises(st.style) THEN Escaped("Exception: Claude API error")
    ELSE IF call_claude_raises(st.categorize) THEN Escaped("Exception: Claude API error")
    ELSE LET narratives == generate_narratives(st.formats, st.narrative, 1, NoNarratives)
         IN  IF st.save = "raises" THEN Returned(1, "[ERROR] Error saving outputs", narratives)
             ELSE Returned(0, "Analysis complete!", narratives)

MainInit ==
    /\ stages \in StageOutcomes
    /\ run = <<>>
    /\ mpc = "input"
    /\ SessIdle
    /\ CacheIdle
    /\ KeyIdle
    /\ AnIdle
    /\ ScoreIdle
    /\ PipeIdle
    /\ pending = NotPending
    /\ StatIdle

HandleSingleRepo ==
    /\ mpc = "input"
    /\ run' = handle_single_repo(stages)
    /\ mpc' = "done"
    /\ UNCHANGED <<stages, sessVars, cacheVars, keyVars, anVars, scoreVars, pipeVars, pending, statVars>>

MainNext == HandleSingleRepo

SpecMain == MainInit /\ [][MainNext]_vars

\* ------------------------------------ handle_single_repo, steps 2 and 4
\* The commit dicts of get_recent_commits: hash (the position in the list),
\* timestamp, and the fields the scorer reads.
Retrieved(h, t) ==
    Commit(h, t)
    @@ <<[message |-> MsgFix, insertions |-> 49, deletions |-> 0,
          files_changed |-> 0, files |-> <<>>],
         [message |-> MsgAddRetry, insertions |-> 499, deletions |-> 2,
          files_changed |-> 2, files |-> StatsFiles(2, 2)],
         [message |-> <<>>, insertions |-> 49, deletions |-> 2,
          files_changed |-> 1, files |-> StatsFiles(1, 1)]>>[(h % 3) + 1]

\* extract_json_from_text(response): a list of categorization dicts, or
\* something that is not a list. An index of 0 stands for an item without a
\* usable index (cat.get('index', 0) - 1 is then -1).
CategoryItem(index) ==
    [index |-> index, category |-> "feature", confidence |-> 95,
     reason |-> "adds new feature"]
Categorizations ==
    { [kind |-> "other"] }
    \cup { [kind |-> "list", items |-> items] :
             items \in { <<>>, <<CategoryItem(1)>>, <<CategoryItem(2), CategoryItem(0)>> } }

\* categorize_commits after the answer has been parsed: the dicts of the
\* list it was given, with the categories applied in the order of the answer
categorize_commits(cs, answer) ==
    LET applied(i) == { k \in 1..Len(answer.items) : answer.items[k].index - 1 = i - 1 }
        last(i) == answer.items[CHOOSE k \in applied(i) : \A m \in applied(i) : m <= k]
    IN  IF answer.kind # "list" THEN cs
        ELSE [i \in 1..Len(cs) |->
                 IF applied(i) = {} THEN cs[i]
                 ELSE [category |-> last(i).category,
                       confidence |-> last(i).confidence,
                       category_reason |-> last(i).reason] @@ cs[i]]

PipelineInit ==
    /\ commits \in UNION { { [i \in 1..n |-> Retrieved(i, ts[i])] : ts \in [1..n -> 0..MaxTime] }
                           : n \in 0..MaxRetrieved }
    \* Config.SESSION_GAP_HOURS: an int read from the environment
    /\ gap_hours \in GapHours
    /\ categorizations \in Categorizations
    /\ sessions = <<>>
    /\ spc = "input"
    /\ scommits = <<>>
    /\ scored = <<>>
    /\ summary = <<>>
    /\ qpc = "input"
    /\ temporal_data = <<>>
    /\ CacheIdle
    /\ KeyIdle
    /\ AnIdle
    /\ MainIdle
    /\ pending = NotPending
    /\ StatIdle

\* main.py:160-213 when the analyzer's calls succeed. The dicts of the
\* sessions are the dicts of commits: what categorize_commits writes into the
\* dicts of recent_session shows in commits and sessions as well.
GroupAndAnalyze ==
    /\ spc = "input"
    /\ spc' = "done"
    /\ qpc' = "done"
    /\ IF commits = <<>>
       THEN UNCHANGED <<commits, sessions, scommits, scored, summary, temporal_data>>
       ELSE LET recent_session == group_into_sessions(commits, gap_hours)[1]
                categorized_commits == categorize_commits(recent_session, categorizations)
                dict(c) == IF \E i \in 1..Len(categorized_commits) :
                                  categorized_commits[i].hash = c.hash
                           THEN categorized_commits[CHOOSE i \in 1..Len(categorized_commits) :
                                                        categorized_commits[i].hash = c.hash]
                           ELSE c
                dicts(cs) == [i \in 1..Len(cs) |-> dict(cs[i])]
                grouped == group_into_sessions(commits, gap_hours)
            IN  /\ sessions' = [s \in 1..Len(grouped) |-> dicts(grouped[s])]
                /\ commits' = dicts(commits)
                /\ scommits' = categorized_commits
                /\ scored' = score_commits(categorized_commits)
                /\ summary' = get_summary_stats(score_commits(categorized_commits))
                /\ temporal_data' = analyze_temporal_patterns(dicts(commits))
    /\ UNCHANGED <<gap_hours, categorizations, cacheVars, keyVars, anVars, mainVars,
                   pending, statVars>>

SpecPipeline == PipelineInit /\ [][GroupAndAnalyze]_vars


\* ------------------------------------------------------------ helpers
RECURSIVE Flatten(_)
Flatten(ss) == IF ss = <<>> THEN <<>> ELSE ss[1] \o Flatten(Tail(ss))

\* the places <<k, j>> of the returned list: session k, commit j of it
Places == { <<k, j>> \in (1..Len(sessions)) \X (1..MaxCommits + 1) : j <= Len(sessions[k]) }

\* C1: group_into_sessions returns a partition of its input: no session is
\* empty, every input commit stands at exactly one place of the output, every
\* commit of the output is an input commit, the empty list gives the empty
\* list and a single commit gives one session holding it.
C1_Partition ==
    spc = "done" =>
        /\ \A k \in 1..Len(sessions) : sessions[k] # <<>>
        /\ \A i \in 1..Len(commits) :
               Cardinality({ p \in Places : sessions[p[1]][p[2]] = commits[i] }) = 1
        /\ \A p \in Places : \E i \in 1..Len(commits) : sessions[p[1]][p[2]] = commits[i]
        /\ Len(Flatten(sessions)) = Len(commits)
        /\ (commits = <<>> => sessions = <<>>)
        /\ (Len(commits) = 1 => sessions = <<commits>>)

\* Witness of C1: a call on three commits, given out of time order, that gave
\* more than one session, one of them with more than one commit.
C1_Witness ==
    /\ spc = "done"
    /\ Len(commits) = 3
    /\ commits[1].timestamp > commits[3].timestamp
    /\ Len(sessions) >= 2
    /\ \E k \in 1..Len(sessions) : Len(sessions[k]) >= 2

\* the output in time order: the sessions oldest first, laid end to end
Chronological == Flatten(Reversed(sessions))

\* the session (index of the returned list) holding place n of Chronological
RECURSIVE SessionOfPlace(_, _)
SessionOfPlace(n, k) ==
    IF n <= Len(sessions[k]) THEN k ELSE SessionOfPlace(n - Len(sessions[k]), k - 1)

\* C2: laid out in time order the output is non-decreasing in timestamp; two
\* neighbours of that order in the same session are at most gap_hours apart,
\* and two neighbours in different sessions (the last commit of one, the first
\* of the next) are strictly more than gap_hours apart.
C2_GapRule ==
    spc = "done" =>
        \A n \in 1..(Len(Chronological) - 1) :
            LET a == Chronological[n]
                b == Chronological[n + 1]
                same == SessionOfPlace(n, Len(sessions)) = SessionOfPlace(n + 1, Len(sessions))
            IN  /\ a.timestamp <= b.timestamp
                /\ same => b.timestamp - a.timestamp <= gap_hours * TicksPerHour
                /\ ~same => b.timestamp - a.timestamp > gap_hours * TicksPerHour

\* C2, the example: commits at 09:00, 09:30 and 13:00 (ticks 0, 1, 8) with a
\* 3 h threshold give [09:00, 09:30] and [13:00], most recent first.
C2_Example ==
    (spc = "done" /\ gap_hours = 3 /\ Len(commits) = 3
        /\ { commits[i].timestamp : i \in 1..3 } = {0, 1, 8})
    => LET at(t) == CHOOSE c \in { commits[i] : i \in 1..3 } : c.timestamp = t
       IN  sessions = << <<at(8)>>, <<at(0), at(1)>> >>

\* C2: the gap rule together with the example.
C2_Gaps == C2_GapRule /\ C2_Example

\* Witness of C2: a gap exactly equal to the threshold inside a session, and a
\* larger gap between two sessions.
C2_Witness ==
    /\ spc = "done"
    /\ gap_hours = 1
    /\ Len(sessions) = 2
    /\ \E j \in 1..(Len(sessions[2]) - 1) :
           sessions[2][j + 1].timestamp - sessions[2][j].timestamp = gap_hours * TicksPerHour
    /\ sessions[1][1].timestamp - sessions[2][Len(sessions[2])].timestamp
           = gap_hours * TicksPerHour + 1

\* ------------------------------------------------------- cache claims
\* A step that is a call of get on an enabled store. Every call records
\* itself in op and every other step resets op, so under [...]_vars a step
\* with op'.name = "get" is a call of get.
GetCalled == enabled /\ op'.name = "get"

\* the file a get read, as set wrote it: a dict with an ISO timestamp and a
\* response
AsWritten(e) == e.json = "dict" /\ e.tsKind = "iso" /\ e.response \in Responses

\* a file get cannot use: not JSON, JSON of the wrong shape, no or an
\* unusable timestamp, no response
Corrupt(e) ==
    \/ e.json \in {"invalid", "nondict"}
    \/ e.json = "dict" /\ (e.tsKind # "iso" \/ e.response = Missing)

\* C3: a get with max age maxAge >= 0 on an entry that set wrote at time t
\* with response v returns v when now - t <= maxAge and None when
\* now - t > maxAge.
C3_RoundTripAndExpiry ==
    [][ (GetCalled /\ AsWritten(files[op'.key]) /\ op'.max_age.some /\ op'.max_age.val >= 0)
        => LET e == files[op'.key]
           IN  /\ now - e.ts <= op'.max_age.val => op'.ret = RetValue(e.response)
               /\ now - e.ts > op'.max_age.val => op'.ret = RetNone ]_vars

\* C4: a get that finds a corrupt entry returns None, adds one miss, deletes
\* the entry and raises nothing.
C4_CorruptIsHandled ==
    [][ (GetCalled /\ Corrupt(files[op'.key]))
        => /\ op'.raised = ""
           /\ op'.ret = RetNone
           /\ misses' = misses + 1
           /\ files'[op'.key] = Absent ]_vars

\* C5: a get that finds an entry older than the max age in force returns None
\* and has deleted the entry when it returns.
C5_StaleIsDeleted ==
    [][ (GetCalled /\ files[op'.key].json = "dict" /\ files[op'.key].tsKind = "iso"
           /\ now - files[op'.key].ts > OrDefault(op'.max_age, CACHE_MAX_AGE_HOURS))
        => /\ op'.ret = RetNone
           /\ files'[op'.key] = Absent ]_vars

\* C6: on an enabled store a get that returns None adds exactly one miss and
\* no hit, and a get that returns a value adds exactly one hit and no miss.
C6_OneCountPerGet ==
    [][ (GetCalled /\ op'.raised = "")
        => IF op'.ret = RetNone
           THEN misses' = misses + 1 /\ hits' = hits
           ELSE hits' = hits + 1 /\ misses' = misses ]_vars

\* C7: a get for a key that another process is in the middle of writing does
\* not find a partly written file: it finds no file or a complete entry, so
\* it does not take the file for corrupt and does not delete it.
C7_NoPartialRead ==
    [][ (GetCalled /\ writer.pc = "open" /\ writer.linked /\ writer.key = op'.key)
        => /\ files[op'.key].json \in {"absent", "dict"}
           /\ files'[op'.key] = files[op'.key] ]_vars

\* C8: on a disabled store a get returns None, and neither a get nor a set
\* changes the stored files.
C8_DisabledIsInert ==
    [][ (~enabled /\ op'.name \in {"get", "set"})
        => /\ files' = files
           /\ op'.name = "get" => op'.ret = RetNone ]_vars

\* Witness of C8: a disabled store whose directory holds a file, and a set
\* for that very key has just returned.
C8_Witness ==
    /\ ~enabled
    /\ op.name = "set"
    /\ files[op.key].json # "absent"

\* C9: clear(days), days >= 0, deletes exactly the files whose mtime is before
\* now - days, leaves the others as they were and returns how many it removed.
C9_ClearExact ==
    [][ (op'.name = "clear" /\ op'.max_age.some /\ op'.max_age.val >= 0)
        => LET cutoff == now - op'.max_age.val * HoursPerDay
               old == { k \in Keys : files[k].json # "absent" /\ files[k].mtime < cutoff }
           IN  /\ \A k \in Keys : files'[k] = IF k \in old THEN Absent ELSE files[k]
               /\ op'.ret = [kind |-> "int", val |-> Cardinality(old)] ]_vars

\* C10 as the spec has it: get_stats reports hit_rate = hits / (hits + misses),
\* a value in [0, 1], and 0 when there has been no request.
C10_HitRateIsFraction ==
    op.name = "get_stats" =>
        LET r == op.ret.hit_rate
        IN  /\ r.den > 0
            /\ IF hits + misses = 0 THEN r.num = 0
               ELSE r.num * (hits + misses) = hits * r.den
            /\ 0 <= r.num /\ r.num <= r.den

\* C10, amended: get_stats reports hit_rate = 100 * hits / (hits + misses), a
\* percentage in [0, 100], and 0 when there has been no request.
C10_HitRateIsPercentage ==
    op.name = "get_stats" =>
        LET r == op.ret.hit_rate
        IN  /\ op.ret.hits = hits /\ op.ret.misses = misses
            /\ r.den > 0
            /\ IF hits + misses = 0 THEN r.num = 0
               ELSE r.num * (hits + misses) = 100 * hits * r.den
            /\ 0 <= r.num /\ r.num <= 100 * r.den

\* Witness of C10: get_stats has just returned with one hit and one miss
\* counted.
C10_Witness ==
    /\ op.name = "get_stats"
    /\ hits = 1
    /\ misses = 1


\* --------------------------------------------------- cache key claims
BothKeys == Len(kkeys) = 2

\* two params arguments that are equal as mappings: both None, or dicts with
\* the same items
ItemSet(d) == { d.items[i] : i \in 1..Len(d.items) }
EqualAsMappings(d1, d2) == d1.some = d2.some /\ ItemSet(d1) = ItemSet(d2)

\* C11: two calls of _generate_cache_key with the same model, the same prompt
\* and params that are equal as mappings, in whatever order their items were
\* inserted, return the same key.
C11_OrderIndependent ==
    BothKeys /\ kargs[1].model = kargs[2].model /\ kargs[1].prompt = kargs[2].prompt
             /\ EqualAsMappings(kargs[1].params, kargs[2].params)
    => kkeys[1] = kkeys[2]

\* two calls with the same two items inserted in opposite orders
C11_Witness ==
    /\ BothKeys
    /\ kargs[1].model = kargs[2].model /\ kargs[1].prompt = kargs[2].prompt
    /\ Len(kargs[1].params.items) = 2
    /\ kargs[1].params.items # kargs[2].params.items
    /\ EqualAsMappings(kargs[1].params, kargs[2].params)
    /\ kkeys[1] = kkeys[2]

\* C12: two calls whose arguments differ in model, in prompt or in params
\* (None and the empty dict counted as different, ':' allowed in model and
\* prompt) hash different strings.
C12_EncodingInjective ==
    BothKeys /\ ( \/ kargs[1].model # kargs[2].model
                  \/ kargs[1].prompt # kargs[2].prompt
                  \/ ~EqualAsMappings(kargs[1].params, kargs[2].params) )
    => kkeys[1] # kkeys[2]

\* ----------------------------------------------------- analyzer claims
\* _call_claude is called for prompt
CallClaudeCalled(prompt) == calls' = calls + 1 /\ call'.prompt = prompt

\* an earlier call for prompt has stored response, and the entry is not
\* older than CACHE_MAX_AGE_HOURS
StoredAndFresh(prompt, response) ==
    LET e == files[generate_cache_key(prompt, self_model, NoParams)]
    IN  /\ use_cache /\ enabled
        /\ e = WrittenEntry(e.ts, response)
        /\ now - e.ts <= CACHE_MAX_AGE_HOURS

\* C13: once a call for prompt P has stored response R, a later call for P
\* while the entry is fresh returns exactly R and does not call the external
\* service, whatever text R is.
C13_MemoTransparent ==
    [][ \A p \in Prompts, r \in ApiResponses :
          StoredAndFresh(p, r) /\ CallClaudeCalled(p)
          => call'.ret = RetValue(r) /\ call'.raised = "" /\ api_calls' = api_calls ]_vars
\* ------------------------------------------------------- scorer claims
\* score_commits has returned
Scored == qpc # "input"

\* a float between 0.0 and 1.0
InUnitInterval(x) == ~FLess(x, FloatOfRatio(0, 1)) /\ ~FLess(FloatOfRatio(1, 1), x)

\* C14 as stated: for every commit the three sub-scores of its quality_score
\* lie in [0, 1], and the overall score is the arithmetic mean of the three
\* sub-scores and lies in [0, 1].
C14_OverallIsMean ==
    Scored => \A i \in 1..Len(scored) :
        LET qs == scored[i].quality_score
        IN  /\ InUnitInterval(qs.message_quality)
            /\ InUnitInterval(qs.size_appropriateness)
            /\ InUnitInterval(qs.focus)
            /\ InUnitInterval(qs.overall)
            /\ 3 * Hundredths(qs.overall)
                 = Hundredths(qs.message_quality) + Hundredths(qs.size_appropriateness)
                   + Hundredths(qs.focus)

\* C14 amended: the sub-scores and the overall score lie in [0, 1], and the
\* overall score is the mean of the three sub-scores rounded to two decimals
\* (three times the overall score, in hundredths, is within one hundredth of
\* the sum of the sub-scores).
C14_OverallIsRoundedMean ==
    Scored => \A i \in 1..Len(scored) :
        LET qs == scored[i].quality_score
            sum == Hundredths(qs.message_quality) + Hundredths(qs.size_appropriateness)
                   + Hundredths(qs.focus)
        IN  /\ InUnitInterval(qs.message_quality)
            /\ InUnitInterval(qs.size_appropriateness)
            /\ InUnitInterval(qs.focus)
            /\ InUnitInterval(qs.overall)
            /\ 3 * Hundredths(qs.overall) \in (sum - 1)..(sum + 1)

\* a scored commit whose message score was cut down to 1.0 and whose mean is
\* not a whole number of hundredths
C14_Witness ==
    /\ Scored /\ Len(scored) = 1
    /\ scored[1].commit.message = MsgAddRetry
    /\ Hundredths(scored[1].quality_score.message_quality) = 100
    /\ Hundredths(scored[1].quality_score.size_appropriateness) = 85
    /\ Hundredths(scored[1].quality_score.focus) = 75
    /\ Hundredths(scored[1].quality_score.overall) = 87

\* the grade the thresholds give to an overall value
GradeOf(overall) ==
    IF ~FLess(overall, QUALITY_THRESHOLD_HIGH) THEN "A"
    ELSE IF ~FLess(overall, QUALITY_THRESHOLD_LOW) THEN "B"
    ELSE "C"

\* C15: in every quality_score record the grade is the one the thresholds
\* give to the reported overall value: 'A' exactly when overall >=
\* QUALITY_THRESHOLD_HIGH, 'B' exactly when QUALITY_THRESHOLD_LOW <= overall <
\* QUALITY_THRESHOLD_HIGH, 'C' exactly when overall < QUALITY_THRESHOLD_LOW.
C15_GradeMatchesOverall ==
    Scored => \A i \in 1..Len(scored) :
        scored[i].quality_score.grade = GradeOf(scored[i].quality_score.overall)

\* C16: the message sub-score of "fix" is below 0.5, and that of "Add retry
\* logic with exponential backoff for flaky network calls" is above 0.85.
C16_ExampleScores ==
    Scored => \A i \in 1..Len(scored) :
        /\ scored[i].commit.message = MsgFix
           => FLess(scored[i].quality_score.message_quality, FloatOfRatio(5, 10))
        /\ scored[i].commit.message = MsgAddRetry
           => FLess(FloatOfRatio(85, 100), scored[i].quality_score.message_quality)

\* the commits of a grade
Graded(g) == { i \in 1..Len(scored) : scored[i].quality_score.grade = g }

\* C17: for every non-empty list of scored commits get_summary_stats counts
\* as high_quality the commits graded 'A', as medium_quality those graded 'B',
\* as low_quality those graded 'C', and the three counts add up to
\* total_commits.
C17_CountsMatchGrades ==
    qpc = "done" /\ scored # <<>>
    => /\ summary.high_quality = Cardinality(Graded("A"))
       /\ summary.medium_quality = Cardinality(Graded("B"))
       /\ summary.low_quality = Cardinality(Graded("C"))
       /\ summary.high_quality + summary.medium_quality + summary.low_quality
            = summary.total_commits

\* ------------------------------------------------ more session claims
\* C18: a call of group_into_sessions with gap_hours < 0 does not return a
\* list of sessions: the negative threshold is rejected before any commit is
\* segmented.
C18_NegativeGapRejected == gap_hours < 0 => spc # "done"

\* C20: every commit of an earlier-listed session is strictly later in time
\* than every commit of a later-listed session; inside a session the
\* timestamps are non-decreasing, and two commits of a session with the same
\* timestamp stand in their input order (hash is the input position).
C20_SessionOrder ==
    spc = "done" =>
        /\ \A p \in Places, q \in Places :
               p[1] < q[1] => sessions[p[1]][p[2]].timestamp > sessions[q[1]][q[2]].timestamp
        /\ \A p \in Places, q \in Places :
               p[1] = q[1] /\ p[2] < q[2]
               => LET a == sessions[p[1]][p[2]]
                      b == sessions[q[1]][q[2]]
                  IN  /\ a.timestamp <= b.timestamp
                      /\ a.timestamp = b.timestamp => a.hash < b.hash

\* ---------------------------------------------------------- main claims
\* C19: whatever stage of handle_single_repo fails, the function returns a
\* code: no exception leaves it.
C19_NoExceptionEscapes == mpc = "done" => run.kind = "returned" /\ run.code \in {0, 1}

\* -------------------------------------------------- more scorer claims
\* C21: the size sub-score is the line-count tier value (1.0 below
\* SIZE_SMALL, 0.85 below SIZE_MEDIUM, 0.65 below SIZE_LARGE, 0.35 above)
\* times exactly one file-count penalty, that of the largest threshold the
\* file count exceeds: 0.6 for more than 20 files, 0.8 for more than 10 and at
\* most 20, none for at most 10.
C21_LargestThresholdPenalty ==
    Scored => \A i \in 1..Len(scored) :
        LET c == scored[i].commit
            tier(total_changes) ==
                IF total_changes < SIZE_SMALL THEN FloatOfRatio(1, 1)
                ELSE IF total_changes < SIZE_MEDIUM THEN FloatOfRatio(85, 100)
                ELSE IF total_changes < SIZE_LARGE THEN FloatOfRatio(65, 100)
                ELSE FloatOfRatio(35, 100)
            penalty == IF c.files_changed > 20 THEN FloatOfRatio(6, 10)
                       ELSE IF c.files_changed > 10 THEN FloatOfRatio(8, 10)
                       ELSE FloatOfRatio(1, 1)
        IN  scored[i].quality_score.size_appropriateness
              = round2(FMul(tier(c.insertions + c.deletions), penalty))

\* C22: suggestions are produced only for sub-scores below the low threshold
\* and only for a criterion that fails. A commit whose three sub-scores are
\* all >= 0.6 has no suggestion; a message suggestion appears only when the
\* message sub-score is below the threshold and its own criterion fails
\* (length < 10, first word not an imperative verb, generic phrase present);
\* the oversized-diff suggestion appears only when the size sub-score is below
\* the threshold (and the many-files one only when the focus sub-score is);
\* no suggestion appears twice in a list.
C22_SuggestionsOnlyForFailures ==
    Scored => \A i \in 1..Len(scored) :
        LET c == scored[i].commit
            qs == scored[i].quality_score
            given == { qs.suggestions[k] : k \in 1..Len(qs.suggestions) }
            low(sub_score) == FLess(sub_score, QUALITY_THRESHOLD_LOW)
            split == "Split into smaller commits (current: "
                     \o ToString(c.insertions + c.deletions) \o " lines)"
            many == "Commit touches many files (" \o ToString(c.files_changed)
                    \o ") - consider splitting"
        IN  /\ ~low(qs.message_quality) /\ ~low(qs.size_appropriateness) /\ ~low(qs.focus)
               => qs.suggestions = <<>>
            /\ "Add more detail to commit message" \in given
               => low(qs.message_quality) /\ Len(c.message) < 10
            /\ "Start with imperative verb (add, fix, update, etc.)" \in given
               => /\ low(qs.message_quality)
                  /\ Text(lower(first_word(c.message))) \notin imperative_verbs
            /\ "Be more specific - avoid generic terms" \in given
               => low(qs.message_quality) /\ is_generic(c.message)
            /\ split \in given
               => low(qs.size_appropriateness) /\ c.insertions + c.deletions > SIZE_LARGE
            /\ many \in given => low(qs.focus) /\ c.files_changed > 10
            /\ given \subseteq { "Add more detail to commit message",
                                 "Start with imperative verb (add, fix, update, etc.)",
                                 "Be more specific - avoid generic terms", split, many }
            /\ Cardinality(given) = Len(qs.suggestions)

\* a scored commit that fails every criterion and has the five suggestions
C22_Witness ==
    /\ Scored /\ Len(scored) = 1
    /\ Len(scored[1].quality_score.suggestions) = 5
    /\ scored[1].commit.insertions + scored[1].commit.deletions > SIZE_LARGE
    /\ scored[1].commit.files_changed > 10

\* ------------------------------------------------------ pipeline claims
\* C23: peak selection is deterministic. When several hours tie for the
\* greatest count, peak_hour is the lowest of them, and two input lists that
\* hold the same commits in different orders give the same peak_hour and the
\* same peak_day.
C23_PeakIsOrderIndependent ==
    spc = "done" /\ commits # <<>> =>
        /\ \A n \in 1..Len(temporal_data.by_hour) :
               (\A m \in 1..Len(temporal_data.by_hour) :
                    temporal_data.by_hour[m][2] <= temporal_data.by_hour[n][2])
               => temporal_data.peak_hour <= temporal_data.by_hour[n][1]
        /\ \A p \in Permutations(1..Len(commits)) :
               LET other == analyze_temporal_patterns([i \in 1..Len(commits) |-> commits[p[i]]])
               IN  /\ other.peak_hour = temporal_data.peak_hour
                   /\ other.peak_day = temporal_data.peak_day

\* C24: the active session is the most recent one (it holds the commit of the
\* greatest timestamp), the temporal profile counts all retrieved commits,
\* and the scored commits are the commits of the active session, one for one.
C24_ActiveSessionFullProfile ==
    spc = "done" /\ commits # <<>> =>
        /\ \E i \in 1..Len(sessions[1]) : \A j \in 1..Len(commits) :
               commits[j].timestamp <= sessions[1][i].timestamp
        /\ temporal_data.total_commits = Len(commits)
        /\ [i \in 1..Len(scored) |-> scored[i].commit.hash]
             = [i \in 1..Len(sessions[1]) |-> sessions[1][i].hash]

\* a run with more than one session, whose active session is smaller than the
\* retrieved set
C24_Witness ==
    /\ spc = "done"
    /\ Len(sessions) > 1
    /\ Len(scored) = Len(sessions[1])
    /\ temporal_data.total_commits > Len(scored)

\* C27: attaching derived fields is an extension, not a mutation: after
\* categorize_commits and score_commits have run, every commit dict of the
\* caller's list has the fields and values it had before.
C27_OriginalsUntouched ==
    [][spc = "input" /\ spc' = "done" => commits' = commits]_vars

\* ------------------------------------------------- more analyzer claims
\* a call of _call_claude has ended with the error of the external call
CallClaudeFailed == calls' = calls + 1 /\ call'.raised = "Exception: Claude API error"

\* C26 as stated: a failed external call raises to the caller, leaves the set
\* of cache entries unchanged and is not retried: the external service is
\* invoked exactly once.
C26_FailureLeavesCacheUnchanged ==
    [][CallClaudeFailed => api_calls' = api_calls + 1 /\ files' = files]_vars

\* C26 amended: a failed external call raises to the caller, stores nothing
\* (every cache file is as it was, or was unreadable and has been deleted by
\* the lookup) and is not retried: the external service is invoked exactly
\* once.
C26_FailureStoresNothing ==
    [][CallClaudeFailed
         => /\ api_calls' = api_calls + 1
            /\ call'.ret = RetNone
            /\ \A k \in Keys :
                   \/ files'[k] = files[k]
                   \/ files'[k] = Absent /\ get_outcome(files[k], NoneInt).unlink]_vars

\* a failed call of an analyzer whose cache is in use and holds an entry
C26_Witness ==
    /\ calls > 0
    /\ call.raised = "Exception: Claude API error"
    /\ use_cache /\ enabled
    /\ misses > 0
    /\ \E k \in Keys : files[k] # Absent

\* --------------------------------------------------- more main claims
\* step 6 of handle_single_repo has run
NarrativesGenerated ==
    /\ mpc = "done"
    /\ run.kind = "returned"
    /\ run.printed \in {"Analysis complete!", "[ERROR] Error saving outputs"}

\* C25: when the generation of the narrative of one requested format fails
\* with an error of the external call, that format is skipped and the
\* generation is still attempted for every other requested format; the
\* narratives of those that succeed are what the renderer is given.
C25_FailedFormatIsSkipped ==
    NarrativesGenerated =>
        /\ run.narratives.attempted = stages.formats
        /\ run.narratives.keys
             = { stages.formats[i] : i \in { j \in 1..Len(stages.formats) :
                                               stages.narrative[j] = "ok" } }

\* a run whose first format fails and whose second, another format, is
\* generated and rendered
C25_Witness ==
    /\ NarrativesGenerated
    /\ Len(stages.formats) = 2
    /\ stages.formats[1] # stages.formats[2]
    /\ stages.narrative[1] = "raises"
    /\ run.narratives.keys = {stages.formats[2]}
    /\ run.code = 0

\* --------------------------------------------------- more cache claims
\* C28: a set whose write fails part-way leaves the cache state of its key
\* unchanged: after any set, either the file of the key holds the entry just
\* written, or a get for the key returns what it would have returned before
\* the set (the fresh value v, if the key held one).
C28_FailedSetKeepsEntry ==
    [][op'.name = "set" /\ enabled
         => \/ /\ files'[op'.key].json = "dict"
               /\ files'[op'.key].ts = now
            \/ get_outcome(files'[op'.key], NoneInt).ret
                 = get_outcome(files[op'.key], NoneInt).ret]_vars

\* C29: get and get_stats are safe against concurrent deletion: when another
\* process deletes the file between the existence check (or the listing) and
\* the read (or the stat), get returns None or the stored value and get_stats
\* returns a result; neither raises.
C29_DeletionIsTolerated == op.name \in {"get", "get_stats"} => op.raised = ""

\* C30: the hit and miss counts printed at the end of handle_single_repo are
\* the numbers of hits and misses that the analyzer's calls have produced.
C30_PrintedCountsAreTheAnalyzers ==
    [][stats_line = <<>> /\ stats_line' # <<>>
         => stats_line'.hits = hits /\ stats_line'.misses = misses]_vars
====
